---- MODULE Spec2Model ----
(***************************************************************************)
(* A model of svg-tools (package svgtools): the transform algebra and the  *)
(* document traversal of svg.py, the metadata extractor of info.py, the    *)
(* drawing loop of render.py, and the grid composer of grid.py.            *)
(*                                                                         *)
(* Representation.                                                         *)
(*  - An XML element is a record [tag, attrib, kids].  attrib is a total   *)
(*    function over AttrKeys; an attribute that is absent maps to <<>>, an *)
(*    attribute that is present with value v maps to <<v>>.                *)
(*  - Python floats are integers here; every document of the model has     *)
(*    sizes whose quotients are exact, so float arithmetic is exact too.   *)
(*  - A transform attribute, and a presentation or style attribute where   *)
(*    the style lines of plot_svg are called on their own, is its text: a  *)
(*    sequence of one-character strings, on which the regular expressions  *)
(*    and string methods of the code are carried out.                      *)
(***************************************************************************)
EXTENDS Integers, Sequences, FiniteSets, TLC

VARIABLES
    doc,          \* root element handed to collect_info / plot_svg
    cmd,          \* which consumer drives the traversal: "info" or "plot"
    pc,           \* "idle", "iter" (inside the for loop), "done"
    frames,       \* generator recursion stack of iter_paths_with_groups
    group_stack,  \* the shared mutable label list of the traversal
    yielded,      \* every tuple the generator has produced, in order
    path_count,   \* collect_info: path_count
    groups,       \* collect_info: groups
    ids,          \* collect_info: ids
    patches,      \* plot_svg: patches handed to ax.add_patch, in order
    png_path,     \* plot_svg: its out_path argument, <<>> for None
    info,         \* collect_info: the returned record (NoInfo until it returns)
    files,        \* the file system: path -> <<>> (no such file) or <<root element>>
    last,         \* the latest grid composer call: arguments, outcome, files before it
    fcall         \* one call of a helper function: its name, argument and result

travVars == <<doc, cmd, pc, frames, group_stack, yielded, path_count, groups,
              ids, patches, png_path, info>>

gridVars == <<files, last>>

fnVars == <<fcall>>

vars == <<travVars, gridVars, fnVars>>

\* Python's None, as returned by dict.get for a missing key.
None == "<None>"

\* the files of the model
SRC == "src.svg"
GRID == "grid.svg"
OUT == "out.svg"
Paths_ == {SRC, GRID, OUT}

(***************************************************************************)
(* XML elements                                                            *)
(***************************************************************************)
\* The key under which ElementTree stores an attribute written
\* inkscape:label in a file: the parser expands the prefix to its namespace.
\* The bare key "inkscape:label" exists only on elements built through the
\* API, never on parsed ones.
INKSCAPE_LABEL == "{http://www.inkscape.org/namespaces/inkscape}label"

AttrKeys == {"id", "inkscape:label", INKSCAPE_LABEL, "transform", "d", "data-row",
             "data-col", "width", "height", "viewBox", "version", "preserveAspectRatio"}

NoAttrs == [k \in AttrKeys |-> <<>>]

\* attrib with key k set to v
Set(a, k, v) == [a EXCEPT ![k] = <<v>>]

\* k in attrib
Has(a, k) == a[k] # <<>>

\* attrib.get(k), for the string-valued attributes
Get(a, k) == IF a[k] = <<>> THEN None ELSE a[k][1]

Elem(tag, attrib, kids) == [tag |-> tag, attrib |-> attrib, kids |-> kids]

\* Tags; SVG_TAG is the svg namespace prefix, so a tag T here is the
\* qualified name SVG_TAG + T.
G == "g"
PATH == "path"

\* truthiness of a str-or-None value
Truthy(s) == s # None /\ s # ""

\* Python's (a or b) on str-or-None values
Or(a, b) == IF Truthy(a) THEN a ELSE b

(***************************************************************************)
(* Transform algebra (svg.py)                                              *)
(***************************************************************************)
IDENTITY_MATRIX == << <<1, 0, 0>>, <<0, 1, 0>>, <<0, 0, 1>> >>

\* A float that is a whole number: its value and its sign bit.  The sign
\* bit tells the float -0.0 (value 0, bit set) from 0.0; the two are equal
\* as numbers and differ in the text str writes for them.
Float(n) == [val |-> n, neg |-> n < 0]

\* A numeric token and a malformed token of an argument list: val and neg
\* are the value and the sign bit of float(token).  NegZero is the token
\* -0, the one numeric token whose sign bit does not follow from its value.
Num(n) == [num |-> TRUE, val |-> n, neg |-> n < 0]
NegZero == [num |-> TRUE, val |-> 0, neg |-> TRUE]
Bad == [num |-> FALSE, val |-> 0, neg |-> FALSE]

Fn(name, args) == [name |-> name, args |-> args]

to_float(tok, default) ==
    IF tok.num THEN [val |-> tok.val, neg |-> tok.neg] ELSE default

mat_mul(a, b) ==
    LET c(i, j) == a[i][1] * b[1][j] + a[i][2] * b[2][j] + a[i][3] * b[3][j]
    IN << <<c(1, 1), c(1, 2), c(1, 3)>>,
          <<c(2, 1), c(2, 2), c(2, 3)>>,
          <<c(3, 1), c(3, 2), c(3, 3)>> >>

\* math.cos / math.sin of math.radians(deg).  The angle 0 is the only one
\* at which both are whole numbers in floating point (at 90 the cosine is
\* 6.1e-17, at 180 the sine is 1.2e-16, and so on), so it is the only
\* angle at which they have a value here.
CosDeg(deg) == CASE deg = 0 -> 1

SinDeg(deg) == CASE deg = 0 -> 0

\* vals = [to_float(v, 0.0) for v in re.split(...) if v], as the numbers
\* the matrices are built from
Vals(args) == [i \in 1..Len(args) |-> to_float(args[i], Float(0)).val]

\* the matrix t of one transform function, or <<>> when the loop continues
FnMatrix(name, vals) ==
    IF name = "matrix" /\ Len(vals) = 6 THEN
        << <<vals[1], vals[3], vals[5]>>,
           <<vals[2], vals[4], vals[6]>>,
           <<0, 0, 1>> >>
    ELSE IF name = "translate" THEN
        LET tx == IF Len(vals) > 0 THEN vals[1] ELSE 0
            ty == IF Len(vals) > 1 THEN vals[2] ELSE 0
        IN << <<1, 0, tx>>, <<0, 1, ty>>, <<0, 0, 1>> >>
    ELSE IF name = "scale" THEN
        LET sx == IF Len(vals) > 0 THEN vals[1] ELSE 1
            sy == IF Len(vals) > 1 THEN vals[2] ELSE sx
        IN << <<sx, 0, 0>>, <<0, sy, 0>>, <<0, 0, 1>> >>
    ELSE IF name = "rotate" /\ Len(vals) > 0 THEN
        LET cos_a == CosDeg(vals[1])
            sin_a == SinDeg(vals[1])
            cx == IF Len(vals) > 1 THEN vals[2] ELSE 0
            cy == IF Len(vals) > 2 THEN vals[3] ELSE 0
        IN << <<cos_a, -sin_a, cx - cx * cos_a + cy * sin_a>>,
              <<sin_a, cos_a, cy - cx * sin_a - cy * cos_a>>,
              <<0, 0, 1>> >>
    ELSE <<>>

\* variant: each function is multiplied onto the running result from the left
RECURSIVE ParseFrom_prepend(_, _, _)
ParseFrom_prepend(fns, i, matrix) ==
    IF i > Len(fns) THEN matrix
    ELSE LET t == FnMatrix(fns[i].name, Vals(fns[i].args))
         IN ParseFrom_prepend(fns, i + 1, IF t = <<>> THEN matrix ELSE mat_mul(t, matrix))

RECURSIVE ParseFrom(_, _, _)
ParseFrom(fns, i, matrix) ==
    IF i > Len(fns) THEN matrix
    ELSE LET t == FnMatrix(fns[i].name, Vals(fns[i].args))
         IN ParseFrom(fns, i + 1, IF t = <<>> THEN matrix ELSE mat_mul(matrix, t))

\* the image of point (x, y) under matrix m
Apply(m, x, y) == << m[1][1] * x + m[1][2] * y + m[1][3],
                     m[2][1] * x + m[2][2] * y + m[2][3] >>

(***************************************************************************)
(* Attribute text.  Where the text of an attribute is itself under study,  *)
(* it is a sequence of one-character strings and the regular expressions   *)
(* and string methods of the code are carried out on it.  The characters   *)
(* of the model are letters, decimal digits, the signs + and -, the point, *)
(* blank, comma, colon, semicolon and the parentheses.                     *)
(***************************************************************************)
Letters == {"a", "b", "c", "d", "e", "f", "g", "h", "i", "j", "k", "l", "m",
            "n", "o", "p", "q", "r", "s", "t", "u", "v", "w", "x", "y", "z",
            "A", "B", "C", "D", "E", "F", "G", "H", "I", "J", "K", "L", "M",
            "N", "O", "P", "Q", "R", "S", "T", "U", "V", "W", "X", "Y", "Z"}

Digits == <<"0", "1", "2", "3", "4", "5", "6", "7", "8", "9">>

DigitSet == {Digits[i] : i \in 1..10}

DigitVal(c) == (CHOOSE i \in 1..10 : Digits[i] = c) - 1

Min(S) == CHOOSE x \in S : \A y \in S : x <= y

\* first index j >= i with text[j] in S, Len(text) + 1 when there is none
FirstIn(text, i, S) ==
    LET hits == {j \in i..Len(text) : text[j] \in S}
    IN IF hits = {} THEN Len(text) + 1 ELSE Min(hits)

\* first index j >= i with text[j] not in S, Len(text) + 1 when there is none
FirstNotIn(text, i, S) ==
    LET hits == {j \in i..Len(text) : text[j] \notin S}
    IN IF hits = {} THEN Len(text) + 1 ELSE Min(hits)

Max(S) == CHOOSE x \in S : \A y \in S : x >= y

\* s.strip()
strip(s) ==
    LET keep == {j \in 1..Len(s) : s[j] # " "}
    IN IF keep = {} THEN <<>> ELSE SubSeq(s, Min(keep), Max(keep))

\* s.lower()
lower(s) ==
    LET UPPER == <<"A", "B", "C", "D", "E", "F", "G", "H", "I", "J", "K", "L", "M",
                   "N", "O", "P", "Q", "R", "S", "T", "U", "V", "W", "X", "Y", "Z">>
        LOWER == <<"a", "b", "c", "d", "e", "f", "g", "h", "i", "j", "k", "l", "m",
                   "n", "o", "p", "q", "r", "s", "t", "u", "v", "w", "x", "y", "z">>
    IN [n \in 1..Len(s) |->
           IF \E i \in 1..26 : UPPER[i] = s[n]
           THEN LOWER[CHOOSE i \in 1..26 : UPPER[i] = s[n]]
           ELSE s[n]]

\* the text without the sign it may start with
Unsigned(s) == IF s # <<>> /\ s[1] \in {"-", "+"} THEN Tail(s) ELSE s

\* the mantissa of a float literal: its leading digits and points
Mantissa(body) == SubSeq(body, 1, FirstNotIn(body, 1, DigitSet \cup {"."}) - 1)

\* float(tok) succeeds.  Blanks around the literal are ignored; the literal
\* is an optional sign and then inf, infinity or nan in any case, or
\* digits with at most one point and at least one digit, optionally
\* followed by e or E, an optional sign and digits.
IsNumber(tok) ==
    LET body == Unsigned(strip(tok))
        mant == Mantissa(body)
        exp == SubSeq(body, Len(mant) + 1, Len(body))
        digits == IF exp = <<>> THEN <<>> ELSE Unsigned(Tail(exp))
    IN \/ lower(body) \in {<<"i", "n", "f">>, <<"n", "a", "n">>,
                           <<"i", "n", "f", "i", "n", "i", "t", "y">>}
       \/ /\ Cardinality({i \in 1..Len(mant) : mant[i] = "."}) <= 1
          /\ \E i \in 1..Len(mant) : mant[i] \in DigitSet
          /\ \/ exp = <<>>
             \/ /\ exp[1] \in {"e", "E"}
                /\ digits # <<>>
                /\ \A i \in 1..Len(digits) : digits[i] \in DigitSet

RECURSIVE DecVal(_, _)
DecVal(body, n) ==
    IF n = 0 THEN 0 ELSE 10 * DecVal(body, n - 1) + DigitVal(body[n])

\* float(tok) succeeds with a whole number written without exponent: the
\* digits after the point, if any, are zeros
IsWhole(tok) ==
    LET body == Unsigned(strip(tok))
        point == FirstIn(body, 1, {"."})
    IN /\ IsNumber(tok)
       /\ Mantissa(body) = body
       /\ \A i \in (point + 1)..Len(body) : body[i] = "0"

\* float(tok) where it is a whole number; the numbers of the model are the
\* integers, so no other literal has a value
NumberVal(tok) ==
    CASE IsWhole(tok) ->
        LET s == strip(tok)
            body == Unsigned(s)
            whole == SubSeq(body, 1, FirstIn(body, 1, {"."}) - 1)
        IN IF s[1] = "-" THEN -DecVal(whole, Len(whole)) ELSE DecVal(whole, Len(whole))

\* the spellings of the four transform functions
Word == [matrix |-> <<"m", "a", "t", "r", "i", "x">>,
         translate |-> <<"t", "r", "a", "n", "s", "l", "a", "t", "e">>,
         scale |-> <<"s", "c", "a", "l", "e">>,
         rotate |-> <<"r", "o", "t", "a", "t", "e">>]

\* the name a spelling stands for; every other spelling is one name that
\* no branch of parse_transform_matrix tests for
NameOf(cs) ==
    IF \E w \in DOMAIN Word : Word[w] = cs
    THEN CHOOSE w \in DOMAIN Word : Word[w] = cs
    ELSE "other"

\* re.findall of ([a-zA-Z]+)\(([^)]*)\) from position i on: the matches in
\* order, each the spelling of the name and the text between the parentheses
RECURSIVE findall(_, _)
findall(text, i) ==
    IF i > Len(text) THEN <<>>
    ELSE LET j == FirstNotIn(text, i, Letters)
             k == IF j > i /\ j <= Len(text) /\ text[j] = "("
                  THEN FirstIn(text, j + 1, {")"})
                  ELSE Len(text) + 1
         IN IF k > Len(text) THEN findall(text, i + 1)
            ELSE <<[name |-> SubSeq(text, i, j - 1), args |-> SubSeq(text, j + 1, k - 1)]>>
                 \o findall(text, k + 1)

\* [v for v in re.split([ ,]+, args.strip()) if v]
RECURSIVE split(_, _)
split(args, i) ==
    IF i > Len(args) THEN <<>>
    ELSE IF args[i] \in {" ", ","} THEN split(args, i + 1)
    ELSE LET j == FirstIn(args, i, {" ", ","})
         IN <<SubSeq(args, i, j - 1)>> \o split(args, j)

\* one match of findall as the (name, args) pair of the transform algebra
Token(tok) ==
    IF IsNumber(tok)
    THEN [num |-> TRUE, val |-> NumberVal(tok), neg |-> strip(tok)[1] = "-"]
    ELSE Bad

FnOf(match) ==
    LET toks == split(match.args, 1)
    IN Fn(NameOf(match.name), [n \in 1..Len(toks) |-> Token(toks[n])])

\* parse_transform_matrix(transform_str); transform_str is <<>> for None and
\* <<text>> for a string
parse_transform_matrix(transform_str) ==
    LET text == IF transform_str = <<>> THEN <<>> ELSE transform_str[1]
        found == findall(text, 1)
    IN ParseFrom([n \in 1..Len(found) |-> FnOf(found[n])], 1, IDENTITY_MATRIX)

\* str(n) of an int n >= 0
RECURSIVE IntText(_)
IntText(n) ==
    IF n < 10 THEN <<Digits[n + 1]>> ELSE IntText(n \div 10) \o <<Digits[(n % 10) + 1]>>

\* str(x) of a float x that is a whole number, as an f-string writes it:
\* the sign bit gives the minus sign, so -0.0 is written -0.0
FloatText(x) ==
    (IF x.neg THEN <<"-">> ELSE <<>>)
    \o IntText(IF x.val < 0 THEN -x.val ELSE x.val) \o <<".", "0">>

(***************************************************************************)
(* Style resolution (svg.py parse_style, render.py plot_svg).  A path's    *)
(* presentation attributes and its style attribute are texts; an absent    *)
(* attribute is <<>>, an attribute with text v is <<v>>.                   *)
(***************************************************************************)
\* s.split(c) from position i on
RECURSIVE SplitOn(_, _, _)
SplitOn(s, i, c) ==
    LET j == FirstIn(s, i, {c})
    IN IF j > Len(s) THEN <<SubSeq(s, i, Len(s))>>
       ELSE <<SubSeq(s, i, j - 1)>> \o SplitOn(s, j + 1, c)

\* parse_style(style_str): the dict as the list of its assignments in order
\* (a later assignment of a key replaces an earlier one)
parse_style(style_str) ==
    LET kvs == SplitOn(style_str, 1, ";")
        withColon == SelectSeq(kvs, LAMBDA kv : \E j \in 1..Len(kv) : kv[j] = ":")
    IN [n \in 1..Len(withColon) |->
          LET kv == withColon[n]
              j == FirstIn(kv, 1, {":"})
          IN [k |-> strip(SubSeq(kv, 1, j - 1)), v |-> strip(SubSeq(kv, j + 1, Len(kv)))]]

\* style_map.get(key): <<>> for None
StyleGet(style_map, key) ==
    LET hits == {n \in 1..Len(style_map) : style_map[n].k = key}
    IN IF hits = {} THEN <<>> ELSE <<style_map[Max(hits)].v>>

\* the spellings of the presentation attributes
PaintKeys == {"fill", "stroke", "fill-opacity", "stroke-opacity", "stroke-width"}

OPACITY == <<"-", "o", "p", "a", "c", "i", "t", "y">>

KeySpelling(key) ==
    CASE key = "fill" -> <<"f", "i", "l", "l">>
      [] key = "stroke" -> <<"s", "t", "r", "o", "k", "e">>
      [] key = "fill-opacity" -> <<"f", "i", "l", "l">> \o OPACITY
      [] key = "stroke-opacity" -> <<"s", "t", "r", "o", "k", "e">> \o OPACITY
      [] key = "stroke-width" -> <<"s", "t", "r", "o", "k", "e", "-", "w", "i", "d", "t", "h">>

NONE == <<"n", "o", "n", "e">>

\* variant: the style entry is preferred to the attribute
Effective_styleFirst(attrib, style_map, key) ==
    IF StyleGet(style_map, KeySpelling(key)) # <<>>
    THEN StyleGet(style_map, KeySpelling(key))
    ELSE attrib[key]

\* node.attrib.get(key, style_map.get(key)): <<>> for None
Effective(attrib, style_map, key) ==
    IF attrib[key] # <<>> THEN attrib[key] ELSE StyleGet(style_map, KeySpelling(key))

\* (value or none) for a paint
OrNone(value) == IF value = <<>> \/ value[1] = <<>> THEN NONE ELSE value[1]

\* to_float(value, default) for a text or None; float ignores blanks around
\* the number
to_float_text(value, default) ==
    IF value # <<>> /\ IsNumber(strip(value[1])) THEN NumberVal(strip(value[1]))
    ELSE default

\* to_rgba(color, alpha)
to_rgba(color, alpha) == [rgb |-> color, a |-> alpha]

\* the tuple (0, 0, 0, 0)
TRANSPARENT == [rgb |-> <<"b", "l", "a", "c", "k">>, a |-> 0]

\* the edge colour none
NO_EDGE == [rgb |-> NONE, a |-> 0]

\* the style part of one iteration of plot_svg's loop, for a path with
\* attributes attrib: the locals and what is handed to PathPatch
resolve_style(attrib) ==
    LET style == IF attrib["style"] = <<>> THEN <<>> ELSE attrib["style"][1]
        style_map == parse_style(style)
        fill == OrNone(Effective(attrib, style_map, "fill"))
        stroke == OrNone(Effective(attrib, style_map, "stroke"))
        fill_opacity == to_float_text(Effective(attrib, style_map, "fill-opacity"), 1)
        stroke_opacity == to_float_text(Effective(attrib, style_map, "stroke-opacity"), 1)
        stroke_width == to_float_text(Effective(attrib, style_map, "stroke-width"), 1)
    IN [fill |-> fill, stroke |-> stroke, fill_opacity |-> fill_opacity,
        stroke_opacity |-> stroke_opacity, stroke_width |-> stroke_width,
        facecolor |-> IF fill # NONE THEN to_rgba(fill, fill_opacity) ELSE TRANSPARENT,
        edgecolor |-> IF stroke # NONE THEN to_rgba(stroke, stroke_opacity) ELSE NO_EDGE,
        linewidth |-> IF stroke # NONE THEN stroke_width ELSE 0]

(***************************************************************************)
(* Document traversal (svg.py, iter_paths_with_groups), run as the         *)
(* generator it is: frames is the stack of suspended generator frames,     *)
(* each holding its element, the position of its for loop (idx, 1-based)   *)
(* and its transform_matrix argument; group_stack is the one list shared   *)
(* by all frames.                                                          *)
(***************************************************************************)
Frame(element, transform_matrix) ==
    [elem |-> element, idx |-> 1, tm |-> transform_matrix]

Top == frames[Len(frames)]

HasChild == Top.idx <= Len(Top.elem.kids)

Child == Top.elem.kids[Top.idx]

\* position of the current child in the document: the child indices from
\* the root down (stands for the identity of the Element object)
CurLoc == [i \in 1..Len(frames) |-> frames[i].idx]

\* label = child.attrib.get("inkscape:label") or child.attrib.get("id")
GroupLabel(attrib) == Or(Get(attrib, "inkscape:label"), Get(attrib, "id"))

\* variant: the child's own transform applied on the wrong side
ComposeTransform_swapped(transform_matrix, attrib) ==
    IF Has(attrib, "transform")
    THEN mat_mul(parse_transform_matrix(attrib["transform"]), transform_matrix)
    ELSE transform_matrix

\* child_transform / path_transform of a child with attributes attrib
\* under the inherited transform_matrix
ComposeTransform(transform_matrix, attrib) ==
    IF Has(attrib, "transform")
    THEN mat_mul(transform_matrix, parse_transform_matrix(attrib["transform"]))
    ELSE transform_matrix

\* [g for g in group_stack if g]
Trail(stack) == SelectSeq(stack, Truthy)

\* group_stack.pop()
StackPop(stack) == SubSeq(stack, 1, Len(stack) - 1)

\* the tuple yielded for the current child (a path)
YieldedTuple ==
    [node |-> Child, loc |-> CurLoc, trail |-> Trail(group_stack),
     tm |-> ComposeTransform(Top.tm, Child.attrib)]

\* the for loop of the top frame moves to its next child
Advance(fs) == [fs EXCEPT ![Len(fs)].idx = @ + 1]

\* if child.tag == g: ... group_stack.append(label); yield from <recursion>
EnterGroup ==
    /\ pc = "iter" /\ HasChild /\ Child.tag = G
    /\ group_stack' = Append(group_stack, GroupLabel(Child.attrib))
    /\ frames' = Append(frames, Frame(Child, ComposeTransform(Top.tm, Child.attrib)))
    /\ UNCHANGED <<doc, cmd, png_path, pc, yielded, path_count, groups, ids, patches, info, files, last, fcall>>

\* the recursive generator is exhausted: group_stack.pop(), next child
ExitGroup ==
    /\ pc = "iter" /\ ~HasChild /\ Len(frames) > 1
    /\ group_stack' = StackPop(group_stack)
    /\ frames' = Advance(SubSeq(frames, 1, Len(frames) - 1))
    /\ UNCHANGED <<doc, cmd, png_path, pc, yielded, path_count, groups, ids, patches, info, files, last, fcall>>

\* a child that is neither a group nor a path: neither branch is taken
SkipOther ==
    /\ pc = "iter" /\ HasChild /\ Child.tag \notin {G, PATH}
    /\ frames' = Advance(frames)
    /\ UNCHANGED <<doc, cmd, png_path, pc, group_stack, yielded, path_count, groups, ids,
                   patches, info, files, last, fcall>>

(***************************************************************************)
(* Lengths and viewBox (svg.py).  A length attribute is one token: Num(n)  *)
(* for a string with the numeric prefix n (a unit may follow), Bad for a   *)
(* string without one.  A viewBox attribute is the token list of           *)
(* view_box.split().  opt is <<>> for None and <<v>> for a value.  The      *)
(* results are floats (Float).                                             *)
(***************************************************************************)
parse_length(opt, default) ==
    IF opt = <<>> THEN default
    ELSE IF opt[1].num THEN to_float(opt[1], default)
    ELSE default

parse_viewbox(root) ==
    LET view_box == root.attrib["viewBox"]
        vals == IF view_box = <<>> THEN <<>>
                ELSE [i \in 1..Len(view_box[1]) |-> to_float(view_box[1][i], Float(0))]
        width == parse_length(root.attrib["width"], Float(1))
        height == parse_length(root.attrib["height"], Float(1))
    IN IF view_box # <<>> /\ view_box[1] # <<>> /\ Len(vals) = 4
       THEN vals
       ELSE <<Float(0), Float(0), width, height>>

(***************************************************************************)
(* Metadata extractor (info.py, collect_info) and drawing loop             *)
(* (render.py, plot_svg), the two consumers of the traversal.              *)
(***************************************************************************)
NoInfo == [returned |-> FALSE]

\* root = tree.getroot(); ...; for ... in iter_paths_with_groups(root):
StartIter(c) ==
    /\ pc = "idle"
    /\ pc' = "iter"
    /\ cmd' = c
    /\ frames' = <<Frame(doc, IDENTITY_MATRIX)>>
    /\ UNCHANGED <<doc, group_stack, yielded, path_count, groups, ids, patches, info, files, last, fcall>>

collect_info_start == StartIter("info") /\ UNCHANGED png_path

\* plot_svg(svg_path, out_path, show), without or with an out_path
plot_svg_start == StartIter("plot") /\ png_path' \in {<<>>, <<OUT>>}

\* variant: the set is replaced by the labels of the latest trail
UpdateGroups_replace(gs, group_trail) ==
    {group_trail[i] : i \in {j \in 1..Len(group_trail) : Truthy(group_trail[j])}}

\* groups.update(g for g in group_trail if g)
UpdateGroups(gs, group_trail) ==
    gs \cup {group_trail[i] : i \in {j \in 1..Len(group_trail) : Truthy(group_trail[j])}}

\* node_id = node.attrib.get("id"); if node_id: ids.add(node_id)
UpdateIds(is, node) ==
    IF Truthy(Get(node.attrib, "id")) THEN is \cup {Get(node.attrib, "id")} ELSE is

\* one iteration of collect_info's for loop: the generator yields a path
collect_info_body ==
    /\ pc = "iter" /\ cmd = "info" /\ HasChild /\ Child.tag = PATH
    /\ yielded' = Append(yielded, YieldedTuple)
    /\ path_count' = path_count + 1
    /\ groups' = UpdateGroups(groups, YieldedTuple.trail)
    /\ ids' = UpdateIds(ids, YieldedTuple.node)
    /\ frames' = Advance(frames)
    /\ UNCHANGED <<doc, cmd, png_path, pc, group_stack, patches, info, files, last, fcall>>

\* the dict collect_info returns
InfoRecord(root, n_paths, gs, is) ==
    [returned |-> TRUE,
     width_attr |-> root.attrib["width"],
     height_attr |-> root.attrib["height"],
     \* parse_length(attr, None), as an optional
     parsed_width |-> IF root.attrib["width"] = <<>> \/ ~root.attrib["width"][1].num
                      THEN <<>> ELSE <<to_float(root.attrib["width"][1], None)>>,
     parsed_height |-> IF root.attrib["height"] = <<>> \/ ~root.attrib["height"][1].num
                       THEN <<>> ELSE <<to_float(root.attrib["height"][1], None)>>,
     view_box |-> parse_viewbox(root),
     paths |-> n_paths,
     groups |-> Cardinality(gs),
     ids |-> Cardinality(is)]

\* the generator is exhausted: collect_info returns
collect_info_return ==
    /\ pc = "iter" /\ cmd = "info" /\ ~HasChild /\ Len(frames) = 1
    /\ pc' = "done"
    /\ info' = InfoRecord(doc, path_count, groups, ids)
    /\ UNCHANGED <<doc, cmd, png_path, frames, group_stack, yielded, path_count, groups, ids,
                   patches, files, last, fcall>>

\* variant: only an absent d is skipped, an empty one is drawn
Drawn_ifPresent(node) == Has(node.attrib, "d")

\* d = node.attrib.get("d"); if not d: continue
Drawn(node) == Truthy(Get(node.attrib, "d"))

\* one iteration of plot_svg's for loop: the generator yields a path
plot_svg_body ==
    /\ pc = "iter" /\ cmd = "plot" /\ HasChild /\ Child.tag = PATH
    /\ yielded' = Append(yielded, YieldedTuple)
    /\ patches' = IF Drawn(YieldedTuple.node)
                  THEN Append(patches, [loc |-> YieldedTuple.loc, tm |-> YieldedTuple.tm])
                  ELSE patches
    /\ frames' = Advance(frames)
    /\ UNCHANGED <<doc, cmd, png_path, pc, group_stack, path_count, groups, ids, info, files, last, fcall>>

\* the generator is exhausted: plot_svg leaves its loop and, given an
\* out_path, makes its directory and saves the figure there: the patches
\* added, in the view of the whole viewBox with the y axis inverted
plot_svg_return ==
    /\ pc = "iter" /\ cmd = "plot" /\ ~HasChild /\ Len(frames) = 1
    /\ pc' = "done"
    /\ files' = IF png_path # <<>>
                THEN [files EXCEPT ![png_path[1]] =
                        <<[figure |-> patches,
                           xlim |-> <<0, parse_viewbox(doc)[3]>>,
                           ylim |-> <<parse_viewbox(doc)[4], 0>>]>>]
                ELSE files
    /\ UNCHANGED <<doc, cmd, png_path, frames, group_stack, yielded, path_count, groups, ids,
                   patches, info, last, fcall>>

(***************************************************************************)
(* Grid composer (grid.py).  A file holds the element tree that            *)
(* ElementTree writes to it and parses back from it.                       *)
(***************************************************************************)
\* the shared namespace table of svg.py
NS == [svg |-> "http://www.w3.org/2000/svg"]

\* NS[key] succeeds (it raises KeyError otherwise)
NSDefined(key) == key \in DOMAIN NS

\* str(n) and int(s) for the one-digit numbers of the model; int gives <<>>
\* where Python raises ValueError

str(n) == Digits[n + 1]

int(s) == IF \E n \in 0..9 : Digits[n + 1] = s
          THEN <<CHOOSE n \in 0..9 : Digits[n + 1] = s>>
          ELSE <<>>

\* body of _split_defs_and_body: the children that are / are not defs
IsDefs(e) == e.tag = "defs"
IsNotDefs(e) == e.tag # "defs"

DefsOf(root) == SelectSeq(root.kids, IsDefs)
BodyOf(root) == SelectSeq(root.kids, IsNotDefs)

_make_cell_group(body_nodes, tx, ty, vb_min_x, vb_min_y, scale_x, scale_y, row, col) ==
    \* -x of a float: the value negated and the sign bit flipped
    LET Neg(x) == [val |-> -x.val, neg |-> ~x.neg]
    IN
    Elem(G,
         Set(Set(Set(NoAttrs, "transform",
                     Word.translate \o <<"(">> \o FloatText(tx) \o <<",">> \o FloatText(ty)
                     \o <<")">>),
                 "data-row", str(row)),
             "data-col", str(col)),
         <<Elem(G,
                Set(NoAttrs, "transform",
                    Word.translate \o <<"(">> \o FloatText(Neg(vb_min_x)) \o <<",">>
                    \o FloatText(Neg(vb_min_y)) \o <<")", " ">>
                    \o Word.scale \o <<"(">> \o FloatText(scale_x) \o <<",">>
                    \o FloatText(scale_y) \o <<")">>),
                body_nodes)>>)

RECURSIVE Flatten(_)
Flatten(ss) == IF ss = <<>> THEN <<>> ELSE Head(ss) \o Flatten(Tail(ss))

\* cell_width and cell_height of create_grid_svg: the width and height of
\* one cell of the grid built from a source
CellWidth(root) == parse_length(root.attrib["width"], parse_viewbox(root)[3])
CellHeight(root) == parse_length(root.attrib["height"], parse_viewbox(root)[4])

\* new_root of create_grid_svg, as written to out_path
GridRoot(root, rows, cols) ==
    LET vb == parse_viewbox(root)
        cell_width == CellWidth(root)
        cell_height == CellHeight(root)
        Abs(n) == IF n < 0 THEN -n ELSE n
        \* a / b of two floats where the quotient is a whole number (it
        \* has no value here otherwise); the sign bit of a quotient or a
        \* product is set when the sign bits of its operands differ
        Quotient(a, b) ==
            CASE Abs(a.val) % Abs(b.val) = 0 ->
                [val |-> (IF a.neg # b.neg THEN -1 ELSE 1) * (Abs(a.val) \div Abs(b.val)),
                 neg |-> a.neg # b.neg]
        \* n * x and x * n of an int n and a float x
        Times(n, x) == [val |-> n * x.val, neg |-> (n < 0) # x.neg]
        \* the token that the text str(x) of a float is
        Str(x) == [num |-> TRUE, val |-> x.val, neg |-> x.neg]
        scale_x == IF vb[3].val # 0 THEN Quotient(cell_width, vb[3]) ELSE Float(1)
        scale_y == IF vb[4].val # 0 THEN Quotient(cell_height, vb[4]) ELSE Float(1)
        defs == DefsOf(root)
        body == BodyOf(root)
        a0 == Set(Set(Set(Set(NoAttrs,
                  "width", Str(Times(cols, cell_width))),
                  "height", Str(Times(rows, cell_height))),
                  "viewBox", <<Num(0), Num(0), Str(Times(cols, cell_width)),
                               Str(Times(rows, cell_height))>>),
                  "version", IF Has(root.attrib, "version") THEN root.attrib["version"][1]
                             ELSE "1.1")
        a1 == IF Has(root.attrib, "preserveAspectRatio")
              THEN Set(a0, "preserveAspectRatio", root.attrib["preserveAspectRatio"][1])
              ELSE a0
        new_defs == Elem("defs", NoAttrs, Flatten([i \in 1..Len(defs) |-> defs[i].kids]))
        \* for r in range(rows): for c in range(cols): the k-th cell appended
        cell(k) == LET r == (k - 1) \div cols
                       c == (k - 1) % cols
                   IN _make_cell_group(body, Times(c, cell_width), Times(r, cell_height),
                                       vb[1], vb[2], scale_x, scale_y, r, c)
    IN Elem("svg", a1, <<new_defs>> \o [k \in 1..(rows * cols) |-> cell(k)])

\* variant: the dimension check joins its two tests with and
InvalidDims_and(rows, cols) == rows < 1 /\ cols < 1

\* if rows < 1 or cols < 1: raise ValueError
InvalidDims(rows, cols) == rows < 1 \/ cols < 1

Outcome(error, msg, parsed, out) ==
    [error |-> error, msg |-> msg, parsed |-> parsed, out |-> out]

\* What one call of create_grid_svg does: the exception it ends with
\* ("none" when it returns), whether ET.parse(svg_path) was executed, and
\* the document written to out_path (<<>> when nothing is written; the
\* parent directory is created right before the write and only then).
create_grid_svg_outcome(fs, svg_path, rows, cols) ==
    IF InvalidDims(rows, cols)
    THEN Outcome("ValueError", "rows and cols must be >= 1", FALSE, <<>>)
    ELSE IF fs[svg_path] = <<>>
    THEN Outcome("FileNotFoundError", svg_path, TRUE, <<>>)
    ELSE IF ~NSDefined("svg")
    THEN Outcome("KeyError", "svg", TRUE, <<>>)
    ELSE IF ~NSDefined("xlink")
    THEN Outcome("KeyError", "xlink", TRUE, <<>>)
    ELSE Outcome("none", "", TRUE, <<GridRoot(fs[svg_path][1], rows, cols)>>)

\* Python's round(a / b) for integers a, b (b # 0): nearest, ties to even
Round(a, b) ==
    LET n == IF b < 0 THEN -a ELSE a
        d == IF b < 0 THEN -b ELSE b
        q == n \div d
        r == n % d
    IN IF 2 * r < d THEN q
       ELSE IF 2 * r > d THEN q + 1
       ELSE IF q % 2 = 0 THEN q ELSE q + 1

\* the regular expression of parse_transform_to_rc,
\*   translate\(\s*([-\d\.]+)[ ,]+([-\d\.]+)\s*\)
\* matched at position i of tr: <<>> when it does not match there, else the
\* two texts it captures.  Each part of the expression takes what it can
\* (no part can take a character the next could), so there is one way to
\* match.
MatchTranslateAt(tr, i) ==
    LET opening == Word.translate \o <<"(">>
        a == i + Len(opening)
    IN IF a - 1 > Len(tr) \/ SubSeq(tr, i, a - 1) # opening THEN <<>>
       ELSE LET b == FirstNotIn(tr, a, {" "})
                c == FirstNotIn(tr, b, DigitSet \cup {"-", "."})
                d == FirstNotIn(tr, c, {" ", ","})
                e == FirstNotIn(tr, d, DigitSet \cup {"-", "."})
                f == FirstNotIn(tr, e, {" "})
            IN IF c > b /\ d > c /\ e > d /\ f <= Len(tr) /\ tr[f] = ")"
               THEN <<SubSeq(tr, b, c - 1), SubSeq(tr, d, e - 1)>>
               ELSE <<>>

\* re.search of that expression in tr: the captures of the leftmost match,
\* <<>> for None
SearchTranslate(tr) ==
    LET Leftmost(hits) == IF hits = {} THEN <<>> ELSE MatchTranslateAt(tr, Min(hits))
    IN Leftmost({i \in 1..Len(tr) : MatchTranslateAt(tr, i) # <<>>})

\* parse_transform_to_rc(node): the (row, col) it returns, None, or the
\* exception it raises (float of a captured text, or the division)
parse_transform_to_rc(node, grid_size) ==
    LET tr == IF Has(node.attrib, "transform") THEN node.attrib["transform"][1] ELSE <<>>
        Rest(m) ==
            IF m = <<>> THEN [kind |-> "None"]
            ELSE IF ~IsNumber(m[1]) \/ ~IsNumber(m[2]) THEN [kind |-> "ValueError"]
            ELSE IF grid_size = 0 THEN [kind |-> "ZeroDivisionError"]
            ELSE [kind |-> "rc", row |-> Round(NumberVal(m[2]), grid_size),
                  col |-> Round(NumberVal(m[1]), grid_size)]
    IN Rest(SearchTranslate(tr))

\* match_cell(node, r, c): "yes", "no", or the exception raised on the way:
\* "int" where int() of a tag raises, else the exception of
\* parse_transform_to_rc
match_cell(node, r, c, grid_size) ==
    IF Has(node.attrib, "data-row") /\ Has(node.attrib, "data-col")
    THEN LET ri == int(node.attrib["data-row"][1])
             ci == int(node.attrib["data-col"][1])
         IN IF ri = <<>> THEN "int"
            ELSE IF ri[1] # r THEN "no"
            ELSE IF ci = <<>> THEN "int"
            ELSE IF ci[1] = c THEN "yes" ELSE "no"
    ELSE LET Equal(rc) ==
                 IF rc.kind = "rc" THEN (IF rc.row = r /\ rc.col = c THEN "yes" ELSE "no")
                 ELSE IF rc.kind = "None" THEN "no"
                 ELSE rc.kind
         IN Equal(parse_transform_to_rc(node, grid_size))

\* next((n for n in cells if match_cell(n, r, c)), None) over the top-level
\* groups of root: [at |-> the index of the child found, 0 for None], or
\* [at |-> -1, raised |-> the exception] where match_cell raises before a
\* match
RECURSIVE FindCell(_, _, _, _, _)
FindCell(root, i, r, c, grid_size) ==
    IF i > Len(root.kids) THEN [at |-> 0, raised |-> "none"]
    ELSE IF root.kids[i].tag # G THEN FindCell(root, i + 1, r, c, grid_size)
    ELSE LET Taken(m) ==
                 IF m = "yes" THEN [at |-> i, raised |-> "none"]
                 ELSE IF m = "no" THEN FindCell(root, i + 1, r, c, grid_size)
                 ELSE [at |-> -1, raised |-> m]
         IN Taken(match_cell(root.kids[i], r, c, grid_size))

\* the inner group of a cell: its last child
Last(seq) == seq[Len(seq)]

\* The document after the two loops at the end of move_tile: the children
\* of dst_inner are removed, then deep copies of the children of src_inner
\* are appended.  When src and dst are the same element, src_inner is the
\* list just emptied.
ReplaceInner(root, si, di) ==
    LET src_inner == Last(root.kids[si].kids)
        copied == IF si = di THEN <<>> ELSE src_inner.kids
        dst == root.kids[di]
    IN [root EXCEPT !.kids[di].kids[Len(dst.kids)].kids = copied]

\* What one call of move_tile does (see create_grid_svg_outcome).
move_tile_outcome(fs, svg_path, grid_size, src_row, src_col, dst_row, dst_col) ==
    IF ~NSDefined("svg")
    THEN Outcome("KeyError", "svg", FALSE, <<>>)
    ELSE IF ~NSDefined("xlink")
    THEN Outcome("KeyError", "xlink", FALSE, <<>>)
    ELSE IF fs[svg_path] = <<>>
    THEN Outcome("FileNotFoundError", svg_path, TRUE, <<>>)
    ELSE
    LET root == fs[svg_path][1]
        \* the lines after src and dst have been computed
        Replace(src, dst, si, di) ==
          IF di = -1
          THEN (IF dst.raised = "int"
                THEN Outcome("ValueError", "invalid literal for int()", TRUE, <<>>)
                ELSE IF dst.raised = "ValueError"
                THEN Outcome("ValueError", "could not convert string to float", TRUE, <<>>)
                ELSE Outcome("ZeroDivisionError", "float division by zero", TRUE, <<>>))
          ELSE IF si = 0
          THEN Outcome("ValueError", "Source cell not found", TRUE, <<>>)
          ELSE IF di = 0
          THEN Outcome("ValueError", "Destination cell not found", TRUE, <<>>)
          ELSE IF root.kids[di].kids = <<>>
          THEN Outcome("ValueError", "Destination cell has no inner group to replace", TRUE, <<>>)
          ELSE IF Last(root.kids[di].kids).tag # G
          THEN Outcome("ValueError", "Unexpected destination structure; expected inner group",
                       TRUE, <<>>)
          ELSE IF root.kids[si].kids = <<>>
          THEN Outcome("ValueError", "Source cell has no inner group to copy", TRUE, <<>>)
          ELSE IF Last(root.kids[si].kids).tag # G
          THEN Outcome("ValueError", "Unexpected source structure; expected inner group",
                       TRUE, <<>>)
          ELSE Outcome("none", "", TRUE, <<ReplaceInner(root, si, di)>>)
        \* the generator for dst runs only after src has been computed
        Dst(src) ==
            LET Both(dst) == Replace(src, dst, src.at, dst.at)
            IN Both(IF src.at = -1 THEN src
                    ELSE FindCell(root, 1, dst_row, dst_col, grid_size))
    IN Dst(FindCell(root, 1, src_row, src_col, grid_size))

(***************************************************************************)
(* Documents of the model                                                  *)
(***************************************************************************)
\* nesting depth of the generated documents
MaxDepth == 2

Translate(x, y) ==
    Word.translate \o <<"(">> \o IntText(x) \o <<",">> \o IntText(y) \o <<")">>
Scale(k) == Word.scale \o <<"(">> \o IntText(k) \o <<")">>

D == "M0 0L1 1"

PathP == Elem(PATH, Set(Set(NoAttrs, "d", D), "id", "p"), <<>>)
PathT == Elem(PATH, Set(Set(NoAttrs, "d", D), "transform", Translate(0, 5)), <<>>)
PathNoD == Elem(PATH, Set(NoAttrs, "id", "q"), <<>>)
PathEmptyD == Elem(PATH, Set(NoAttrs, "d", ""), <<>>)

Paths == {PathP, PathT, PathNoD}

AttrsA == Set(Set(NoAttrs, "id", "a"), "transform", Translate(5, 0))
AttrsU == Set(NoAttrs, "transform", Scale(2))
AttrsB == Set(Set(NoAttrs, INKSCAPE_LABEL, "b"), "id", "x")

GroupAttrs == {AttrsA, AttrsU, AttrsB}

RootAttrs == Set(Set(Set(NoAttrs, "width", Num(10)), "height", Num(10)),
                 "viewBox", <<Num(0), Num(0), Num(10), Num(10)>>)

Svg(kids) == Elem("svg", RootAttrs, kids)

\* elements nested at most d groups deep: a group holds a nested element
\* followed by a path
RECURSIVE Level(_)
Level(d) ==
    IF d = 0 THEN Paths
    ELSE Paths \cup {Elem(G, a, <<e, q>>) : a \in GroupAttrs, e \in Level(d - 1), q \in Paths}

GeneratedDocs == {Svg(<<e>>) : e \in Level(MaxDepth)}

\* three nested groups, the u-th unlabeled, holding n1, n2 and n3 paths
Rep(e, n) == [i \in 1..n |-> e]

ChainAttrs(k, u) ==
    IF k = u THEN AttrsU
    ELSE IF k = 1 THEN AttrsA
    ELSE IF k = 2 THEN AttrsB
    ELSE Set(Set(NoAttrs, "id", "c"), "transform", Translate(1, 1))

Chain3(u, n1, n2, n3, q) ==
    Svg(<<Elem(G, ChainAttrs(1, u),
              Rep(q, n1) \o
              <<Elem(G, ChainAttrs(2, u),
                    Rep(q, n2) \o <<Elem(G, ChainAttrs(3, u), Rep(q, n3))>>)>>)>>)

ChainDocs ==
    {Chain3(u, n[1], n[2], 4 - n[1] - n[2], q) :
        u \in 1..3, n \in {m \in (0..3) \X (0..3) : m[1] + m[2] <= 3},
        q \in {PathP, PathNoD}}

\* hand-written documents: sibling groups, elements that are neither group
\* nor path (with paths inside), empty labels, a root with a transform
FixtureDocs ==
    { Svg(<<Elem(G, AttrsA, <<PathT>>), Elem(G, AttrsU, <<PathP>>), Elem("rect", NoAttrs, <<>>),
            PathT>>),
      Svg(<<Elem("a", AttrsA, <<PathP>>), PathEmptyD, PathP>>),
      Svg(<<Elem(G, Set(NoAttrs, INKSCAPE_LABEL, "layer"),
                 <<PathP, Elem(G, Set(NoAttrs, "id", ""), <<PathP, PathNoD>>), PathT>>)>>),
      Elem("svg", Set(RootAttrs, "transform", Translate(7, 7)),
           <<Elem(G, Set(NoAttrs, "transform",
                         Scale(2) \o <<" ">> \o Translate(1, 0)
                         \o <<" ", "s", "k", "e", "w", "X", "(", "3", ")", ",">>
                         \o Word.translate \o <<"(", "x", ")">>),
                  <<PathT>>)>>),
      Elem("svg", NoAttrs, <<>>) }

Docs == GeneratedDocs \cup ChainDocs \cup FixtureDocs

(***************************************************************************)
(* Specification of the traversal and its consumers                        *)
(***************************************************************************)
TravStart ==
    /\ cmd = "none"
    /\ pc = "idle"
    /\ frames = <<>>
    /\ group_stack = <<>>
    /\ yielded = <<>>
    /\ path_count = 0
    /\ groups = {}
    /\ ids = {}
    /\ patches = <<>>
    /\ png_path = <<>>
    /\ info = NoInfo

NoCall == [op |-> "none"]

NoEval == [fn |-> "none"]

TravInit ==
    /\ doc \in Docs
    /\ TravStart
    /\ files = [p \in Paths_ |-> <<>>]
    /\ last = NoCall
    /\ fcall = NoEval

TravNext ==
    \/ collect_info_start
    \/ plot_svg_start
    \/ EnterGroup
    \/ ExitGroup
    \/ SkipOther
    \/ collect_info_body
    \/ collect_info_return
    \/ plot_svg_body
    \/ plot_svg_return

SpecTrav == TravInit /\ [][TravNext]_vars

(***************************************************************************)
(* Files of the model and the grid composer's operations                   *)
(***************************************************************************)
\* largest number of rows and of columns asked of create_grid_svg
MaxDim == 2

\* largest row / column number asked of move_tile
MaxCoord == 1

SrcA ==
    Elem("svg",
         Set(Set(Set(NoAttrs, "width", Num(10)), "height", Num(10)),
             "viewBox", <<Num(0), Num(0), Num(10), Num(10)>>),
         <<Elem("defs", NoAttrs, <<Elem("linearGradient", Set(NoAttrs, "id", "grad"), <<>>)>>),
           Elem(G, AttrsA, <<PathP>>),
           PathT>>)

SrcB ==
    Elem("svg",
         Set(Set(Set(Set(NoAttrs, "width", Num(20)),
             "viewBox", <<Num(5), Num(5), Num(10), Num(10)>>),
             "version", "1.2"),
             "preserveAspectRatio", "xMidYMid"),
         <<PathP, Elem("rect", NoAttrs, <<>>)>>)

SrcC == Elem("svg", Set(NoAttrs, "width", Bad), <<PathNoD>>)

SourceFiles == {<<>>, <<SrcA>>, <<SrcB>>, <<SrcC>>}

\* the grid_size handed to move_tile: the cell size of the stored grids
GridSize == CellWidth(SrcA).val

\* a grid whose cells have since been given contents of their own: the
\* inner group of the cell that is the k-th child of the root holds k - 1
\* paths
Edited(grid) ==
    [grid EXCEPT !.kids = [k \in 1..Len(grid.kids) |->
        IF grid.kids[k].tag # G THEN grid.kids[k]
        ELSE [grid.kids[k] EXCEPT !.kids[1].kids = Rep(PathP, k - 1)]]]

\* the same grid without the data-row / data-col tags
Untagged(grid) ==
    [grid EXCEPT !.kids = [k \in 1..Len(grid.kids) |->
        [grid.kids[k] EXCEPT !.attrib["data-row"] = <<>>, !.attrib["data-col"] = <<>>]]]

\* a grid whose first cell has no child and whose second cell ends with a
\* path instead of its inner group
Broken(grid) ==
    [grid EXCEPT !.kids[2].kids = <<>>,
                 !.kids[3].kids = Append(@, PathP)]

\* the same grid with the position transforms of its cells in reverse
\* order, the tags left as they are
Displaced(grid) ==
    [grid EXCEPT !.kids = [k \in 1..Len(grid.kids) |->
        [grid.kids[k] EXCEPT !.attrib["transform"] =
                                 grid.kids[Len(grid.kids) + 1 - k].attrib["transform"]]]]

Grid22 == GridRoot(SrcA, 2, 2)

GridFiles == {<<>>, <<Edited(Grid22)>>, <<Untagged(Edited(Grid22))>>, <<Broken(Edited(Grid22))>>,
              <<Edited(GridRoot(SrcB, 1, 2))>>, <<Displaced(Edited(Grid22))>>}

Call(op, svg_path, out_path, args, o, before) ==
    [op |-> op, svg_path |-> svg_path, out_path |-> out_path, args |-> args,
     error |-> o.error, msg |-> o.msg, parsed |-> o.parsed, wrote |-> o.out # <<>>,
     before |-> before]

\* out_path.parent.mkdir(...); ElementTree(...).write(out_path, ...)
Written(fs, out_path, o) ==
    IF o.out = <<>> THEN fs ELSE [fs EXCEPT ![out_path] = o.out]

create_grid_svg(svg_path, rows, cols, out_path) ==
    LET o == create_grid_svg_outcome(files, svg_path, rows, cols)
    IN /\ files' = Written(files, out_path, o)
       /\ last' = Call("create_grid_svg", svg_path, out_path, <<rows, cols>>, o, files)

move_tile(svg_path, grid_size, src_row, src_col, dst_row, dst_col, out_path) ==
    LET Return(o) ==
            /\ files' = Written(files, out_path, o)
            /\ last' = Call("move_tile", svg_path, out_path,
                            <<src_row, src_col, dst_row, dst_col>>, o, files)
    IN Return(move_tile_outcome(files, svg_path, grid_size, src_row, src_col, dst_row, dst_col))

\* create_grid_svg called with any dimensions, on a source that may or may
\* not exist
CreateGrid ==
    /\ \E rows \in 0..MaxDim, cols \in 0..MaxDim :
          create_grid_svg(SRC, rows, cols, GRID)
    /\ UNCHANGED <<travVars, fnVars>>

\* move_tile on the stored grid, in place or to a new file
MoveTile ==
    /\ \E sr \in 0..MaxCoord, sc \in 0..MaxCoord, dr \in 0..MaxCoord, dc \in 0..MaxCoord,
         out_path \in {GRID, OUT} :
          move_tile(GRID, GridSize, sr, sc, dr, dc, out_path)
    /\ UNCHANGED <<travVars, fnVars>>

GridInit ==
    /\ files \in {f \in [Paths_ -> SourceFiles \cup GridFiles] :
                     f[SRC] \in SourceFiles /\ f[GRID] \in GridFiles /\ f[OUT] = <<>>}
    /\ last = NoCall
    /\ doc = Elem("svg", NoAttrs, <<>>)
    /\ TravStart
    /\ fcall = NoEval

GridNext ==
    \/ CreateGrid
    \/ MoveTile

SpecGrid == GridInit /\ [][GridNext]_vars

(***************************************************************************)
(* Specification of the helper functions called on their own: the          *)
(* argument is drawn at the start, the one step is the call.               *)
(***************************************************************************)
MaxFns == 2

SkewX == <<"s", "k", "e", "w", "X">>

NameSpellings == {Word[w] : w \in DOMAIN Word} \cup {SkewX}

\* argument texts, each with the numbers it is meant to spell (a malformed
\* token meaning 0)
ArgForm(text, vals) == [text |-> text, vals |-> vals]

ArgForms ==
    { ArgForm(<<>>, <<>>),
      ArgForm(<<"2">>, <<2>>),
      ArgForm(<<"1", "0", ",", "2", "0">>, <<10, 20>>),
      ArgForm(<<" ", "0", " ", "1", ",", " ", "+", "1", " ">>, <<0, 1, 1>>),
      ArgForm(<<"1", ".", "0", ",", "0", ",", "0", ",", "1", ",", "-", "3", ",", "4">>,
              <<1, 0, 0, 1, -3, 4>>),
      ArgForm(<<"x", ",", "3">>, <<0, 3>>) }

\* one transform function as written: the angle of a rotate is 0
FnPart(name, form) == [name |-> name, form |-> form]

FnParts ==
    {FnPart(n, f) : n \in NameSpellings, f \in ArgForms} \
    {FnPart(Word.rotate, f) : f \in {g \in ArgForms : g.vals # <<>> /\ g.vals[1] # 0}}

FnText(part) == part.name \o <<"(">> \o part.form.text \o <<")">>

RECURSIVE JoinParts(_, _, _)
JoinParts(parts, sep, i) ==
    IF i > Len(parts) THEN <<>>
    ELSE FnText(parts[i]) \o (IF i < Len(parts) THEN sep ELSE <<>>)
         \o JoinParts(parts, sep, i + 1)

PartSeqs == UNION {[1..n -> FnParts] : n \in 0..MaxFns}

\* the arguments of parse_transform_matrix: None, or the text of a list of
\* transform functions written one after the other or a blank apart
TransformArg(parts, transform_str) == [parts |-> parts, transform_str |-> transform_str]

TransformArgs ==
    {TransformArg(<<>>, <<>>)} \cup
    {TransformArg(ps, <<JoinParts(ps, sep, 1)>>) : ps \in PartSeqs, sep \in {<<>>, <<" ">>}}

TransformCalls ==
    {[fn |-> "parse_transform_matrix", arg |-> a, done |-> FALSE, ret |-> <<>>] :
        a \in TransformArgs}

\* matrix = parse_transform_matrix(transform_str)
parse_transform_matrix_call ==
    /\ fcall.fn = "parse_transform_matrix" /\ ~fcall.done
    /\ fcall' = [fcall EXCEPT !.done = TRUE,
                              !.ret = parse_transform_matrix(fcall.arg.transform_str)]
    /\ UNCHANGED <<travVars, gridVars>>

\* colours and numbers as written
RED == <<"r", "e", "d">>
BLUE == <<"b", "l", "u", "e">>

\* one declaration of a style attribute: a presentation attribute and the
\* value given to it
Decl(key, val) == [key |-> key, val |-> val]

DeclLists ==
    { <<Decl("fill", NONE)>>,
      <<Decl("fill", BLUE), Decl("stroke", NONE)>>,
      <<Decl("stroke", BLUE), Decl("stroke-width", <<"2">>), Decl("fill-opacity", <<"2">>)>>,
      <<Decl("fill", <<>>), Decl("stroke-opacity", <<"2">>)>>,
      <<Decl("fill", RED), Decl("fill", NONE)>>,
      <<Decl("stroke", <<>>), Decl("stroke-width", <<"3">>), Decl("stroke-opacity", <<"0">>)>> }

\* the text of a list of declarations, written tightly or with blanks
\* around every part and an entry without a colon at the end
RECURSIVE StyleText(_, _, _)
StyleText(decls, spaced, i) ==
    LET sp == IF spaced THEN <<" ">> ELSE <<>>
    IN IF i > Len(decls) THEN (IF spaced THEN <<" ", "x", ";">> ELSE <<>>)
       ELSE sp \o KeySpelling(decls[i].key) \o sp \o <<":">> \o sp \o decls[i].val \o sp
            \o (IF i < Len(decls) \/ spaced THEN <<";">> ELSE <<>>)
            \o StyleText(decls, spaced, i + 1)

\* the style attribute of a path: absent, empty, or the text of declarations
StyleForm(decls, style) == [decls |-> decls, style |-> style]

StyleForms ==
    {StyleForm(<<>>, <<>>), StyleForm(<<>>, << <<>> >>)} \cup
    {StyleForm(ds, <<StyleText(ds, spaced, 1)>>) : ds \in DeclLists, spaced \in BOOLEAN}

PaintTexts == {<<>>, << <<>> >>, <<NONE>>, <<RED>>}

\* the attributes of a path as far as plot_svg reads them for its style
PathStyles ==
    {[decls |-> sf.decls,
      attrib |-> [k \in PaintKeys \cup {"style"} |->
                     CASE k = "fill" -> f
                       [] k = "stroke" -> s
                       [] k = "fill-opacity" -> fo
                       [] k = "stroke-opacity" -> so
                       [] k = "stroke-width" -> sw
                       [] k = "style" -> sf.style]] :
        f \in PaintTexts, s \in PaintTexts,
        fo \in {<<>>, << <<"0">> >>, << <<"x">> >>},
        so \in {<<>>, << <<" ", "0">> >>},
        sw \in {<<>>, << <<"3">> >>},
        sf \in StyleForms}

StyleCalls ==
    {[fn |-> "resolve_style", arg |-> a, done |-> FALSE, ret |-> <<>>] : a \in PathStyles}

\* the style lines of one iteration of plot_svg's loop
resolve_style_call ==
    /\ fcall.fn = "resolve_style" /\ ~fcall.done
    /\ fcall' = [fcall EXCEPT !.done = TRUE, !.ret = resolve_style(fcall.arg.attrib)]
    /\ UNCHANGED <<travVars, gridVars>>

FnInit ==
    /\ fcall \in TransformCalls \cup StyleCalls
    /\ doc = Elem("svg", NoAttrs, <<>>)
    /\ TravStart
    /\ files = [p \in Paths_ |-> <<>>]
    /\ last = NoCall

FnNext ==
    \/ parse_transform_matrix_call
    \/ resolve_style_call

SpecFn == FnInit /\ [][FnNext]_vars

(***************************************************************************)
(* Reference notions the traversal claims are stated with, read off the    *)
(* document tree alone (no traversal state).                               *)
(***************************************************************************)
RECURSIVE ElemAt(_, _)
ElemAt(e, loc) ==
    IF loc = <<>> THEN e ELSE ElemAt(e.kids[Head(loc)], Tail(loc))

\* the elements on the way from the root (excluded) down to loc (included)
Lineage(root, loc) == [i \in 1..Len(loc) |-> ElemAt(root, SubSeq(loc, 1, i))]

\* an element's own transform, identity when it has no transform attribute
OwnMatrix(e) ==
    IF Has(e.attrib, "transform")
    THEN parse_transform_matrix(e.attrib["transform"])
    ELSE IDENTITY_MATRIX

RECURSIVE ProductFrom(_, _, _)
ProductFrom(es, i, acc) ==
    IF i > Len(es) THEN acc ELSE ProductFrom(es, i + 1, mat_mul(acc, OwnMatrix(es[i])))

\* product of the own transforms of a list of elements, first to last
Product(es) == ProductFrom(es, 1, IDENTITY_MATRIX)

\* the label of a group: its explicit label attribute if it has one that
\* is not empty, else its id.  The label attribute is inkscape:label, which
\* a parsed document holds under the namespace-qualified key and an element
\* built through the API may hold under the bare key.
RefLabel(e) ==
    IF Has(e.attrib, INKSCAPE_LABEL) /\ e.attrib[INKSCAPE_LABEL][1] # ""
    THEN e.attrib[INKSCAPE_LABEL][1]
    ELSE IF Has(e.attrib, "inkscape:label") /\ e.attrib["inkscape:label"][1] # ""
    THEN e.attrib["inkscape:label"][1]
    ELSE IF Has(e.attrib, "id") THEN e.attrib["id"][1] ELSE ""

NonEmpty(x) == x # ""

\* the non-empty labels of the proper ancestors of loc, root first
RefTrail(root, loc) ==
    LET anc == Lineage(root, SubSeq(loc, 1, Len(loc) - 1))
    IN SelectSeq([i \in 1..Len(anc) |-> RefLabel(anc[i])], NonEmpty)

\* positions of the path elements that hang under e through groups only
RECURSIVE PathLocsUnder(_, _)
PathLocsUnder(e, prefix) ==
    UNION { IF e.kids[i].tag = PATH THEN {Append(prefix, i)}
            ELSE IF e.kids[i].tag = G THEN PathLocsUnder(e.kids[i], Append(prefix, i))
            ELSE {} : i \in 1..Len(e.kids) }

PathLocs(root) == PathLocsUnder(root, <<>>)

YieldedLocs == {yielded[i].loc : i \in 1..Len(yielded)}

(***************************************************************************)
(* Claims about the traversal and its consumers                            *)
(***************************************************************************)

\* C7: for every yielded path the resolved transform is the product, from
\* the root down, of the own transforms of exactly its ancestor groups and
\* then of the path itself (identity where there is no transform
\* attribute); and a path with translate(0,5) directly inside a top-level
\* group with translate(5,0) gets a transform that maps (0,0) to (5,5).
C7_TransformIsAncestorProduct ==
    \A i \in 1..Len(yielded) :
        LET y == yielded[i]
            line == Lineage(doc, y.loc)
        IN /\ \A k \in 1..(Len(line) - 1) : line[k].tag = G
           /\ line[Len(line)] = y.node
           /\ y.tm = Product(line)
           /\ (/\ Len(line) = 2
               /\ line[1].attrib["transform"] = <<Translate(5, 0)>>
               /\ line[2].attrib["transform"] = <<Translate(0, 5)>>)
              => Apply(y.tm, 0, 0) = <<5, 5>>

\* C7 witness: the path with translate(0,5) inside the group with
\* translate(5,0) has been yielded, and a path under two transformed groups
\* has been yielded with a transform that is not the identity.
C7_Witness ==
    /\ \E i \in 1..Len(yielded) :
          LET line == Lineage(doc, yielded[i].loc)
          IN /\ Len(line) = 2
             /\ line[1].attrib["transform"] = <<Translate(5, 0)>>
             /\ line[2].attrib["transform"] = <<Translate(0, 5)>>
             /\ Apply(yielded[i].tm, 0, 0) = <<5, 5>>
    /\ \E i \in 1..Len(yielded) :
          LET line == Lineage(doc, yielded[i].loc)
          IN /\ Len(line) = 3
             /\ Has(line[1].attrib, "transform")
             /\ Has(line[2].attrib, "transform")
             /\ line[1].attrib["transform"] # line[2].attrib["transform"]
             /\ yielded[i].tm # IDENTITY_MATRIX

\* C8 as claimed: no yielded tuple is a path without a d attribute, and
\* the path count of the metadata extractor counts only paths that have one.
C8_AsClaimed ==
    /\ \A i \in 1..Len(yielded) : Has(yielded[i].node.attrib, "d")
    /\ info.returned =>
          info.paths = Cardinality({l \in PathLocs(doc) : Has(ElemAt(doc, l).attrib, "d")})

\* C8 amended: the traversal yields every path element it reaches, with or
\* without a d attribute, and the metadata extractor counts them all; it is
\* the drawing loop that skips a path whose d attribute is absent or empty,
\* so exactly the yielded paths with a non-empty d are drawn.
C8_SkipIsInDrawingLoop ==
    /\ YieldedLocs \subseteq PathLocs(doc)
    /\ pc = "done" => YieldedLocs = PathLocs(doc)
    /\ info.returned => info.paths = Cardinality(PathLocs(doc))
    /\ \A j \in 1..Len(patches) :
          LET a == ElemAt(doc, patches[j].loc).attrib
          IN Has(a, "d") /\ a["d"][1] # ""
    /\ (pc = "done" /\ cmd = "plot") =>
          {patches[j].loc : j \in 1..Len(patches)} =
          {l \in PathLocs(doc) :
              Has(ElemAt(doc, l).attrib, "d") /\ ElemAt(doc, l).attrib["d"][1] # ""}

\* C8 witness: plot_svg has finished a document in which the traversal
\* yielded a path without d and one with d; only the latter was drawn.
C8_Witness ==
    /\ pc = "done" /\ cmd = "plot"
    /\ \E i \in 1..Len(yielded) : ~Has(yielded[i].node.attrib, "d")
    /\ Len(patches) > 0
    /\ Len(patches) < Len(yielded)

\* C9 as claimed: for every yielded path the group trail is the sequence
\* of non-empty labels of its ancestor groups (the explicit label attribute
\* of a group, else its id), root first, unlabeled groups omitted; the
\* label stack holds one entry per open group, so a label is gone once its
\* group is left.
C9_AsClaimed ==
    /\ \A i \in 1..Len(yielded) : yielded[i].trail = RefTrail(doc, yielded[i].loc)
    /\ pc = "iter" => Len(group_stack) = Len(frames) - 1
    /\ pc = "done" => group_stack = <<>>

\* the distinct non-empty labels in the trails of the yielded tuples
TrailLabels ==
    UNION { {yielded[i].trail[k] : k \in 1..Len(yielded[i].trail)} : i \in 1..Len(yielded) }
        \ {""}

\* C10: the metadata extractor reports as path count the number of tuples
\* of one full traversal and as group count the number of distinct
\* non-empty labels in their trails; on three nested groups, one of them
\* unlabeled, holding four paths, it reports 4 paths and 2 groups.
C10_InfoCounts ==
    info.returned =>
        /\ info.paths = Len(yielded)
        /\ info.groups = Cardinality(TrailLabels)
        /\ doc \in ChainDocs => (info.paths = 4 /\ info.groups = 2)

\* C10 witness: collect_info has returned 4 paths and 2 groups for a
\* document of three nested groups whose middle group is unlabeled.
C10_Witness ==
    /\ info.returned
    /\ doc \in ChainDocs
    /\ ~Has(doc.kids[1].kids[Len(doc.kids[1].kids)].attrib, "id")
    /\ info.paths = 4
    /\ info.groups = 2

(***************************************************************************)
(* Reference notions the grid claims are stated with                       *)
(***************************************************************************)
IsGroup(e) == e.tag = G

\* the top-level cell groups of a grid document, in document order
CellsOf(root) == SelectSeq(root.kids, IsGroup)

\* the cell of a grid document for (r, c): its top-level group tagged with
\* that row and column or, where the group has no tags, placed at
\* translate(c * GridSize, r * GridSize); <<>> when there is none
CellAt(root, r, c) ==
    LET cs == CellsOf(root)
        hit == {k \in 1..Len(cs) :
                  IF Has(cs[k].attrib, "data-row") /\ Has(cs[k].attrib, "data-col")
                  THEN cs[k].attrib["data-row"] = <<str(r)>> /\ cs[k].attrib["data-col"] = <<str(c)>>
                  ELSE /\ Has(cs[k].attrib, "transform")
                       /\ Apply(parse_transform_matrix(cs[k].attrib["transform"]), 0, 0) =
                            <<c * GridSize, r * GridSize>>}
    IN IF hit = {} THEN <<>> ELSE <<cs[CHOOSE k \in hit : \A j \in hit : k <= j]>>

\* a cell has its inner group: its last child is a group
HasInner(cell) == cell.kids # <<>> /\ Last(cell.kids).tag = G

\* the inner content of a cell: the children of its inner group
Content(cell) == Last(cell.kids).kids

\* the cell for (r, c) exists and has its inner group
Sound(root, r, c) == CellAt(root, r, c) # <<>> /\ HasInner(CellAt(root, r, c)[1])

IsMove == last.op = "move_tile"
IsCreate == last.op = "create_grid_svg"

\* the document a call was given, and the one found at its out_path now
Given == last.before[last.svg_path]
Result == files[last.out_path]

NotFoundMsgs ==
    {"Source cell not found", "Destination cell not found",
     "Destination cell has no inner group to replace",
     "Unexpected destination structure; expected inner group",
     "Source cell has no inner group to copy",
     "Unexpected source structure; expected inner group"}

(***************************************************************************)
(* Claims about the grid composer                                          *)
(***************************************************************************)

\* C1 as claimed: create_grid_svg with rows >= 1 and cols >= 1 on a
\* well-formed source produces a document with exactly rows*cols top-level
\* cell groups in row-major order, the cell for (row, col) tagged with that
\* row and column and carrying translate(col*cellWidth, row*cellHeight).
C1_AsClaimed ==
    (IsCreate /\ last.args[1] >= 1 /\ last.args[2] >= 1 /\ Given # <<>>) =>
        /\ last.error = "none"
        /\ Result # <<>>
        /\ LET rows == last.args[1]
               cols == last.args[2]
               cs == CellsOf(Result[1])
           IN /\ Len(cs) = rows * cols
              /\ \A r \in 0..(rows - 1), c \in 0..(cols - 1) :
                    LET cell == cs[r * cols + c + 1]
                    IN /\ cell.attrib["data-row"] = <<str(r)>>
                       /\ cell.attrib["data-col"] = <<str(c)>>
                       /\ Has(cell.attrib, "transform")
                       /\ Apply(parse_transform_matrix(cell.attrib["transform"]), 0, 0) =
                            <<c * CellWidth(Given[1]).val, r * CellHeight(Given[1]).val>>

\* C2 as claimed: after move_tile between two different existing cells the
\* destination cell's inner content equals the source cell's content as it
\* was before the move, and the source cell's content is what it was.
C2_AsClaimed ==
    (/\ IsMove /\ Given # <<>>
     /\ <<last.args[1], last.args[2]>> # <<last.args[3], last.args[4]>>
     /\ Sound(Given[1], last.args[1], last.args[2])
     /\ Sound(Given[1], last.args[3], last.args[4])) =>
        /\ last.error = "none"
        /\ Result # <<>>
        /\ Sound(Result[1], last.args[1], last.args[2])
        /\ Sound(Result[1], last.args[3], last.args[4])
        /\ Content(CellAt(Result[1], last.args[3], last.args[4])[1]) =
           Content(CellAt(Given[1], last.args[1], last.args[2])[1])
        /\ Content(CellAt(Result[1], last.args[1], last.args[2])[1]) =
           Content(CellAt(Given[1], last.args[1], last.args[2])[1])

\* C3 as claimed: move_tile of an existing cell onto itself leaves that
\* cell's inner content equal to what it was before the call.
C3_AsClaimed ==
    (/\ IsMove /\ Given # <<>>
     /\ <<last.args[1], last.args[2]>> = <<last.args[3], last.args[4]>>
     /\ Sound(Given[1], last.args[1], last.args[2])) =>
        /\ last.error = "none"
        /\ Result # <<>>
        /\ Sound(Result[1], last.args[1], last.args[2])
        /\ Content(CellAt(Result[1], last.args[1], last.args[2])[1]) =
           Content(CellAt(Given[1], last.args[1], last.args[2])[1])

\* C5 as claimed: move_tile fails with a NotFound condition whenever the
\* source or the destination cell is absent or lacks its inner group, and
\* then no file is changed or written.
C5_AsClaimed ==
    (/\ IsMove /\ Given # <<>>
     /\ \/ ~Sound(Given[1], last.args[1], last.args[2])
        \/ ~Sound(Given[1], last.args[3], last.args[4])) =>
        /\ last.error = "ValueError"
        /\ last.msg \in NotFoundMsgs
        /\ ~last.wrote
        /\ files = last.before

\* C6: create_grid_svg with rows < 1 or cols < 1 fails with the validation
\* error, without having read the source document and without creating or
\* writing any file.
C6_ValidationFirst ==
    (IsCreate /\ (last.args[1] < 1 \/ last.args[2] < 1)) =>
        /\ last.error = "ValueError"
        /\ last.msg = "rows and cols must be >= 1"
        /\ ~last.parsed
        /\ ~last.wrote
        /\ files = last.before

\* C6 witness: create_grid_svg was called on an existing source with no
\* rows and two columns, and ended with the validation error unread.
C6_Witness ==
    /\ IsCreate
    /\ last.args = <<0, 2>>
    /\ Given # <<>>
    /\ last.error = "ValueError"
    /\ ~last.parsed

\* the position among the children of root of its cell for (r, c), 0 when
\* there is none: the first top-level group that carries the tags r and c
\* or, carrying no tags, is placed at translate(c * GridSize, r * GridSize)
CellIndex(root, r, c) ==
    LET hit == {k \in 1..Len(root.kids) :
                  /\ root.kids[k].tag = G
                  /\ CellAt(root, r, c) = <<root.kids[k]>>}
    IN IF hit = {} THEN 0 ELSE Min(hit)

\* C13 as claimed: move_tile locates the source and the destination by
\* their row / column tags where a top-level group carries them, whatever
\* its translate, and by the translate only where the group has no tags; so
\* a move between two different cells so located is carried out on exactly
\* these two groups: the written document differs from the given one in the
\* inner content of the destination group alone, which is the source's.
C13_AsClaimed ==
    (/\ IsMove /\ Given # <<>>
     /\ <<last.args[1], last.args[2]>> # <<last.args[3], last.args[4]>>
     /\ Sound(Given[1], last.args[1], last.args[2])
     /\ Sound(Given[1], last.args[3], last.args[4])) =>
        LET si == CellIndex(Given[1], last.args[1], last.args[2])
            di == CellIndex(Given[1], last.args[3], last.args[4])
            dst == Given[1].kids[di]
        IN /\ last.error = "none"
           /\ Result = <<[Given[1] EXCEPT !.kids[di].kids[Len(dst.kids)].kids =
                                              Content(Given[1].kids[si])]>>

\* the namespace keys create_grid_svg and move_tile look up in NS
LookedUp == {"svg", "xlink"}

\* C14 as claimed: every namespace key the grid composer looks up is in NS,
\* and a call with valid arguments on a readable document (rows and cols at
\* least 1 for create_grid_svg; source and destination cells present with
\* their inner groups for move_tile) ends without an error and with its
\* output document written.
C14_AsClaimed ==
    /\ \A key \in LookedUp : NSDefined(key)
    /\ (IsCreate /\ last.args[1] >= 1 /\ last.args[2] >= 1 /\ Given # <<>>) =>
          last.error = "none" /\ last.wrote /\ Result # <<>>
    /\ (/\ IsMove /\ Given # <<>>
        /\ Sound(Given[1], last.args[1], last.args[2])
        /\ Sound(Given[1], last.args[3], last.args[4])) =>
          last.error = "none" /\ last.wrote /\ Result # <<>>

(***************************************************************************)
(* Reference notions the transform claim is stated with: the matrix each   *)
(* transform function stands for, from the numbers it is written with      *)
(***************************************************************************)
TranslateBy(tx, ty) == << <<1, 0, tx>>, <<0, 1, ty>>, <<0, 0, 1>> >>

ScaleBy(sx, sy) == << <<sx, 0, 0>>, <<0, sy, 0>>, <<0, 0, 1>> >>

RotateBy(deg) == << <<CosDeg(deg), -SinDeg(deg), 0>>,
                    <<SinDeg(deg), CosDeg(deg), 0>>,
                    <<0, 0, 1>> >>

KnownNames == {Word[w] : w \in DOMAIN Word}

\* the part is an unknown function, or a known one written with a number
\* of arguments its grammar allows
WellFormedPart(part) ==
    LET n == Len(part.form.vals)
    IN CASE part.name = Word.matrix -> n = 6
         [] part.name = Word.translate -> n \in {1, 2}
         [] part.name = Word.scale -> n \in {1, 2}
         [] part.name = Word.rotate -> n \in {1, 3}
         [] OTHER -> TRUE

RefMatrix(part) ==
    LET v == part.form.vals
        n == Len(v)
    IN CASE part.name = Word.matrix ->
              << <<v[1], v[3], v[5]>>, <<v[2], v[4], v[6]>>, <<0, 0, 1>> >>
         [] part.name = Word.translate -> TranslateBy(v[1], IF n > 1 THEN v[2] ELSE 0)
         [] part.name = Word.scale -> ScaleBy(v[1], IF n > 1 THEN v[2] ELSE v[1])
         [] part.name = Word.rotate ->
              LET cx == IF n > 1 THEN v[2] ELSE 0
                  cy == IF n > 2 THEN v[3] ELSE 0
              IN mat_mul(mat_mul(TranslateBy(cx, cy), RotateBy(v[1])),
                         TranslateBy(-cx, -cy))

\* the product, left to right, of the known functions among the first n parts
RECURSIVE RefProduct(_, _)
RefProduct(parts, n) ==
    IF n = 0 THEN IDENTITY_MATRIX
    ELSE IF parts[n].name \in KnownNames
         THEN mat_mul(RefProduct(parts, n - 1), RefMatrix(parts[n]))
         ELSE RefProduct(parts, n - 1)

\* the text translate(10,20) scale(2)
ExampleText ==
    Word.translate \o <<"(", "1", "0", ",", "2", "0", ")", " ">>
    \o Word.scale \o <<"(", "2", ")">>

Parsed == fcall.fn = "parse_transform_matrix" /\ fcall.done

(***************************************************************************)
(* Claim about the transform algebra                                       *)
(***************************************************************************)
\* C11: parse_transform_matrix returns the product of the matrices of the
\* attribute's functions taken left to right, each multiplied onto the
\* running result from the right, starting from the identity and leaving
\* out the functions of unknown name; so an absent or empty attribute gives
\* the identity, and translate(10,20) scale(2) takes (0,0) to (10,20) and
\* (1,1) to (12,22).
C11_LeftToRightProduct ==
    Parsed =>
        LET a == fcall.arg
        IN /\ (\A i \in 1..Len(a.parts) : WellFormedPart(a.parts[i]))
                => fcall.ret = RefProduct(a.parts, Len(a.parts))
           /\ (a.transform_str = <<>> \/ a.transform_str = << <<>> >>)
                => fcall.ret = IDENTITY_MATRIX
           /\ a.transform_str = <<ExampleText>>
                => /\ Apply(fcall.ret, 0, 0) = <<10, 20>>
                   /\ Apply(fcall.ret, 1, 1) = <<12, 22>>

\* the example text has been parsed
C11_Witness ==
    /\ Parsed
    /\ fcall.arg.transform_str = <<ExampleText>>
    /\ Apply(fcall.ret, 1, 1) = <<12, 22>>

(***************************************************************************)
(* Reference notions the style claim is stated with, read off the path's   *)
(* attributes and the declarations its style was written from              *)
(***************************************************************************)
Resolved == fcall.fn = "resolve_style" /\ fcall.done

\* the style entry of a key: the value of its last declaration, <<>> if none
StyleEntry(decls, key) ==
    LET hits == {n \in 1..Len(decls) : decls[n].key = key}
    IN IF hits = {} THEN <<>> ELSE <<decls[Max(hits)].val>>

\* the attribute if present, else the style entry if present, else <<>>
Source(a, key) ==
    IF a.attrib[key] # <<>> THEN a.attrib[key] ELSE StyleEntry(a.decls, key)

\* a number as written, 1 where there is none or it is no number
NumberOr1(src) ==
    IF src # <<>> /\ IsNumber(strip(src[1])) THEN NumberVal(strip(src[1])) ELSE 1

NumbersAsSourced(a, r) ==
    /\ r.fill_opacity = NumberOr1(Source(a, "fill-opacity"))
    /\ r.stroke_opacity = NumberOr1(Source(a, "stroke-opacity"))
    /\ r.stroke_width = NumberOr1(Source(a, "stroke-width"))

NoneSuppresses(r) ==
    /\ r.fill = NONE => r.facecolor.a = 0
    /\ r.stroke = NONE => r.linewidth = 0

(***************************************************************************)
(* Claim about the style resolver                                          *)
(***************************************************************************)
\* C12 as claimed: each effective value is the attribute if present, else
\* the style entry if present, else the default (none for fill and stroke,
\* 1 for the opacities and the width), and a paint resolved to none is
\* suppressed.
C12_AsClaimed ==
    Resolved =>
        LET a == fcall.arg
            r == fcall.ret
        IN /\ r.fill = (IF Source(a, "fill") = <<>> THEN NONE ELSE Source(a, "fill")[1])
           /\ r.stroke = (IF Source(a, "stroke") = <<>> THEN NONE ELSE Source(a, "stroke")[1])
           /\ NumbersAsSourced(a, r)
           /\ NoneSuppresses(r)

\* C12: each effective value is taken from the attribute if present, else
\* from the style entry if present; a fill or stroke so found is the
\* effective one unless it is empty, and none when it is empty or not found;
\* an opacity or width is the number found, 1 when none is found or it is no
\* number; a fill resolved to none is drawn with alpha 0 and a stroke
\* resolved to none with width 0, whatever the opacity or width.
C12_EmptyPaintIsNone ==
    Resolved =>
        LET a == fcall.arg
            r == fcall.ret
            paint(key) == IF Source(a, key) = <<>> \/ Source(a, key) = << <<>> >>
                          THEN NONE ELSE Source(a, key)[1]
        IN /\ r.fill = paint("fill")
           /\ r.stroke = paint("stroke")
           /\ NumbersAsSourced(a, r)
           /\ NoneSuppresses(r)
           /\ r.fill # NONE => r.facecolor = [rgb |-> r.fill, a |-> r.fill_opacity]
           /\ r.stroke # NONE => r.linewidth = r.stroke_width

\* a path whose fill attribute is present and empty while its style says
\* fill:blue, with a fill opacity given, and whose stroke resolves to none:
\* the fill resolves to none and is transparent, the stroke has width 0
C12_Witness ==
    /\ Resolved
    /\ fcall.arg.attrib["fill"] = << <<>> >>
    /\ StyleEntry(fcall.arg.decls, "fill") = <<BLUE>>
    /\ fcall.arg.attrib["fill-opacity"] = << <<"0">> >>
    /\ fcall.ret.fill = NONE
    /\ fcall.ret.facecolor.a = 0
    /\ fcall.ret.stroke = NONE
    /\ fcall.ret.linewidth = 0

====
